---- MODULE Spec2Model ----
(***************************************************************************)
(* Model of the PaddleScience 3-D unsteady cylinder driver                 *)
(* (examples/cylinder/3d_unsteady_discrete/optimize/                       *)
(* cylinder3d_unsteady_optimize.py) and of the visualization adapters of   *)
(* ppsci/visualize/visualizer.py.                                          *)
(*                                                                         *)
(* A 2-D array is a record [ncol, rows]: rows is the sequence of its rows, *)
(* each a sequence of ncol numbers (ncol is kept so that an array of zero  *)
(* rows still has a column count, as a numpy shape (0, 3) has).            *)
(***************************************************************************)
EXTENDS Integers, Sequences, FiniteSets, TLC

(***************************************************************************)
(* Bounds of the model.                                                    *)
(***************************************************************************)
MaxPoints == 2
MaxRanks == 2
MaxTimeSteps == 2
MaxEpochs == 2
NumUser == 2
MaxWeight == 2
MaxRows == 4
MaxArrays == 2
MaxSeed == 3
MaxRank == 5
MaxBatch == 2
MaxFrames == 3
MaxStride == 2

(***************************************************************************)
(* Program constants.                                                      *)
(***************************************************************************)
start_time == 100
time_step == 1
NumCoordCols == 3
NumRecordCols == 7
num_outs == 4
NumBoundaries == 3

vtk_filename == <<"cylinder3d_train_rslt_">>
solution_filename == <<"output_cylinder3d_unsteady">>

VARIABLES
    \* ---- driver (cylinder3d_unsteady_optimize.py) ----
    pc,                \* position of the script
    i,                 \* timestep index of the outer loop
    k,                 \* epoch index of the inner loop
    nranks,            \* paddle.distributed.get_world_size()
    rank,              \* paddle.distributed.get_rank() of this worker
    npoints,           \* len(pde_disc.geometry.interior)
    num_time_step,
    train_epoch,
    weights,           \* the network's trainable parameters (set by paddle.seed)
    inputs,            \* the list of input coordinate arrays
    feeds,             \* the feed dictionary: [input, label]
    current_interior,
    current_user,
    out,               \* result of the last exe.run; <<>> while unbound
    out_step,          \* <<i, k>> of the exe.run that bound out; <<>> while unbound
    next_uvwp,
    build_flag,
    log,               \* the optimizer steps and writer calls made, in order
    fs,                \* [dir, files]: ./openfoam_cylinder_re100 and its files
    archive,           \* the times whose files the dataset archive holds
    downloads,         \* number of wget.download calls made
    lastCall,          \* the last GetRealPhyInfo call
    abort_reason,
    \* ---- data_parallel_partition applied on every rank ----
    p_data,            \* the label list given to the partition
    p_nranks,          \* the world size
    p_shards,          \* rank -> the list that rank received (<<>>: not yet)
    \* ---- GetRealPhyInfo applied to one file ----
    r_time,            \* the time asked for
    r_file,            \* the array stored in that time's file
    r_result,          \* need_info -> [set, value] returned
    \* ---- visualizers (visualizer.py) ----
    v_cls,             \* the class whose save was called ("none": not yet)
    v_output_keys,     \* self.output_keys
    v_num_timestamps,  \* self.num_timestamps
    v_stride,          \* self.stride
    v_filename,        \* the filename argument of save
    v_data_dict,       \* the data_dict argument of save
    v_plots,           \* the plot-writer calls save made, in order
    v_result           \* "none", "returned" or the exception raised

dvars == <<pc, i, k, nranks, rank, npoints, num_time_step, train_epoch, weights,
           inputs, feeds, current_interior, current_user, out, out_step,
           next_uvwp, build_flag, log, fs, archive, downloads, lastCall,
           abort_reason>>

pvars == <<p_data, p_nranks, p_shards>>

rvars == <<r_time, r_file, r_result>>

vvars == <<v_cls, v_output_keys, v_num_timestamps, v_stride, v_filename,
           v_data_dict, v_plots, v_result>>

vars == <<dvars, pvars, rvars, vvars>>

(***************************************************************************)
(* numpy arrays                                                            *)
(***************************************************************************)
Min(a, b) == IF a < b THEN a ELSE b
Max(a, b) == IF a > b THEN a ELSE b

NRows(a) == Len(a.rows)
NCols(a) == a.ncol

\* np.zeros((n, c))
Zeros(n, c) == [ncol |-> c, rows |-> [r \in 1..n |-> [j \in 1..c |-> 0]]]

\* a[:, lo:hi] with 0 <= lo, hi (python slice: the bounds are clipped)
SliceCols(a, lo, hi) ==
    LET l == Min(lo, a.ncol)
        h == Max(l, Min(hi, a.ncol))
    IN  [ncol |-> h - l,
         rows |-> [r \in 1..Len(a.rows) |-> SubSeq(a.rows[r], l + 1, h)]]

\* a[lo:hi] with 0 <= lo, hi
SliceRows(a, lo, hi) ==
    LET l == Min(lo, Len(a.rows))
        h == Max(l, Min(hi, Len(a.rows)))
    IN  [ncol |-> a.ncol, rows |-> SubSeq(a.rows, l + 1, h)]

\* astype(np.float32): the stored double is rounded to the nearest value
\* float32 represents.  Stored values are counted in half units of float32
\* precision, so the cast drops the odd half unit.
Float32(x) == 2 * (x \div 2)

astype_float32(a) ==
    [ncol |-> a.ncol,
     rows |-> [r \in 1..Len(a.rows) |->
                 [j \in 1..Len(a.rows[r]) |-> Float32(a.rows[r][j])]]]

\* str(n) for n >= 0: the decimal digits
Digit(d) == CASE d = 0 -> "0" [] d = 1 -> "1" [] d = 2 -> "2" [] d = 3 -> "3"
              [] d = 4 -> "4" [] d = 5 -> "5" [] d = 6 -> "6" [] d = 7 -> "7"
              [] d = 8 -> "8" [] d = 9 -> "9"

RECURSIVE str(_)
str(n) == IF n < 10 THEN <<Digit(n)>> ELSE str(n \div 10) \o <<Digit(n % 10)>>

(***************************************************************************)
(* The real (OpenFOAM) data files flow_re100_<t>_xyzuvwp.npy               *)
(***************************************************************************)
Times == start_time .. (start_time + (MaxTimeSteps + 1) * time_step)

\* the 7-column records (x, y, z, u, v, w, p) stored for time t
FileData(t, seed, n) ==
    [ncol |-> NumRecordCols,
     rows |-> [p \in 1..n |->
                 [c \in 1..NumRecordCols |->
                     seed + 16 * (t - start_time) + 8 * (p - 1) + c]]]

\* faulty variant: the physical columns start one column late
GetRealPhyInfo_select_late(real_data, need_info) ==
    IF need_info = "cord" THEN SliceCols(real_data, 0, 3)
    ELSE IF need_info = "physic" THEN SliceCols(real_data, 4, 7)
    ELSE real_data

\* lines 83-88: need_info selects columns 0:3, 3:7 or all
GetRealPhyInfo_select(real_data, need_info) ==
    IF need_info = "cord" THEN SliceCols(real_data, 0, 3)
    ELSE IF need_info = "physic" THEN SliceCols(real_data, 3, 7)
    ELSE real_data

\* the value GetRealPhyInfo returns when the file loads
GetRealPhyInfo_value(file, need_info) ==
    GetRealPhyInfo_select(astype_float32(file), need_info)

DownloadOutcomes == {"ok", "download_fail", "extract_fail"}

\* os.path.exists('./openfoam_cylinder_re100') == False
GetRealPhyInfo_needs_download(f) == f.dir = FALSE

\* the file system after the download-and-extract fallback (if taken)
GetRealPhyInfo_fs(f, arch, oc) ==
    IF GetRealPhyInfo_needs_download(f)
    THEN CASE oc = "ok" -> [dir |-> TRUE, files |-> arch]
           [] oc = "download_fail" -> f
           [] oc = "extract_fail" -> [dir |-> TRUE, files |-> {}]
    ELSE f

\* the call returns (no exception from wget, zipfile or np.load)
GetRealPhyInfo_ok(f, arch, oc, time) ==
    /\ GetRealPhyInfo_needs_download(f) => oc = "ok"
    /\ time \in GetRealPhyInfo_fs(f, arch, oc).files

\* the effect of one call on the file system and on the call record
GetRealPhyInfo_call(time, need_info, oc) ==
    /\ fs' = GetRealPhyInfo_fs(fs, archive, oc)
    /\ downloads' = IF GetRealPhyInfo_needs_download(fs)
                    THEN downloads + 1 ELSE downloads
    /\ lastCall' = [time |-> time, need_info |-> need_info,
                    dir_before |-> fs.dir,
                    file_absent |-> time \notin fs.files,
                    downloaded |-> GetRealPhyInfo_needs_download(fs),
                    file_after |-> time \in GetRealPhyInfo_fs(fs, archive, oc).files,
                    fallback_ok |-> (GetRealPhyInfo_needs_download(fs) => oc = "ok"),
                    ok |-> GetRealPhyInfo_ok(fs, archive, oc, time)]

RealFile(t) == FileData(t, 0, NumUser)

\* line 106: geo_disc.user = GetRealPhyInfo(start_time, need_info='cord')
geo_disc_user == GetRealPhyInfo_value(RealFile(start_time), "cord")

\* line 225: current_user = GetRealPhyInfo(start_time, need_info='physic')[:, 0:3]
initial_current_user ==
    SliceCols(GetRealPhyInfo_value(RealFile(start_time), "physic"), 0, 3)

(***************************************************************************)
(* Geometry, network, labels, partition                                    *)
(***************************************************************************)
\* the coordinates of n sampled points of subset s
Coords(s, n) ==
    [ncol |-> NumCoordCols,
     rows |-> [p \in 1..n |-> <<2 * (8 * s + p), 0, 0>>]]

\* algo.create_inputs: interior, the three boundaries, the user points
create_inputs(n, user) ==
    <<Coords(0, n)>> \o [b \in 1..NumBoundaries |-> Coords(b, 1)] \o <<user>>

\* faulty variant: equal shards of n // nr rows, the remainder rows dropped
ShardStart_floor(n, nr, r) == r * (n \div nr)

\* the first row index (0-based) of the shard of rank r among nr ranks
ShardStart(n, nr, r) == (r * n) \div nr

\* one array's shard for this rank
partition_array(d, nr, r) ==
    SliceRows(d, ShardStart(NRows(d), nr, r), ShardStart(NRows(d), nr, r + 1))

\* data_parallel_partition(data, time_step): every array of the list sharded
data_parallel_partition(data, ts, nr, r) ==
    IF nr <= 1 THEN data
    ELSE [j \in 1..Len(data) |-> partition_array(data[j], nr, r)]

\* algo.net.nn_func: one output row of num_outs columns per input row
nn_func(w, x) ==
    [ncol |-> num_outs,
     rows |-> [r \in 1..NRows(x) |->
                 [c \in 1..num_outs |-> (w + x.rows[r][1] + c) % 8]]]

\* fetches = [total_loss] + outputs_var
exe_run(w, fd) ==
    <<[ncol |-> 1, rows |-> <<<<w>>>>]>>
      \o [j \in 1..Len(fd.input) |-> nn_func(w, fd.input[j])]

\* opt_ops of Adam.minimize(total_loss): one update of the parameters
adam_step(w) == (w + 1) % (MaxWeight + 1)

\* the label list: interior current, user next, user current
feed_data_interior_cur(labels, data) == [labels EXCEPT ![1] = data]
feed_data_user_next(labels, data) == [labels EXCEPT ![2] = data]
feed_data_user_cur(labels, data) == [labels EXCEPT ![3] = data]

\* algo.create_labels
create_labels(n, d) == <<Zeros(n, 3), Zeros(d, 4), Zeros(d, 3)>>

\* faulty variant: the key does not advance with the timestep
next_time_of_stuck(ii) == start_time + time_step

\* next_time = start_time + (i + 1) * time_step
next_time_of(ii) == start_time + (ii + 1) * time_step

\* faulty variant: the outer loop runs one iteration too many
TimeLoopContinues_inclusive(ii, n) == ii <= n

\* for i in range(num_time_step)
TimeLoopContinues(ii, n) == ii < n

\* faulty variant: the epoch loop stops one step early
EpochLoopContinues_short(kk, n) == kk + 1 < n

\* for k in range(train_epoch)
EpochLoopContinues(kk, n) == kk < n

\* next_uvwp = out[1:]
take_next_uvwp(o) == SubSeq(o, 2, Len(o))

\* np.array(next_uvwp[0])[:, 0:3]
carry_interior(nu) == SliceCols(nu[1], 0, 3)

\* faulty variant: the reference-point carry is taken from the first output
carry_user_first(nu) == SliceCols(nu[1], 0, 3)

\* np.array(next_uvwp[-1])[:, 0:3]
carry_user(nu) == SliceCols(nu[Len(nu)], 0, 3)

(***************************************************************************)
(* Driver                                                                  *)
(***************************************************************************)
PrefixTimes(n) == {start_time + j * time_step : j \in 0..(n - 1)}

NoCall == [time |-> 0, need_info |-> "none", dir_before |-> TRUE,
           file_absent |-> FALSE, downloaded |-> FALSE, file_after |-> TRUE,
           fallback_ok |-> TRUE, ok |-> TRUE]

DriverInit ==
    /\ pc = "load_cord"
    /\ i = 0
    /\ k = 0
    /\ nranks \in 1..MaxRanks
    /\ rank \in 0..(nranks - 1)
    /\ npoints \in 1..MaxPoints
    /\ num_time_step \in 0..MaxTimeSteps
    /\ train_epoch \in 0..MaxEpochs
    /\ weights = 0
    /\ inputs = <<>>
    /\ feeds = [input |-> <<>>, label |-> <<>>]
    /\ current_interior = Zeros(0, 0)
    /\ current_user = Zeros(0, 0)
    /\ out = <<>>
    /\ out_step = <<>>
    /\ next_uvwp = <<>>
    /\ build_flag = TRUE
    /\ log = <<>>
    /\ \E n \in 0..(MaxTimeSteps + 2) :
          \/ fs = [dir |-> TRUE, files |-> PrefixTimes(n)] /\ archive = {}
          \/ fs = [dir |-> FALSE, files |-> {}] /\ archive = PrefixTimes(n)
    /\ downloads = 0
    /\ lastCall = NoCall
    /\ abort_reason = "none"

Abort(reason) ==
    /\ pc' = "aborted"
    /\ abort_reason' = reason

\* line 106: geo_disc.user = GetRealPhyInfo(start_time, need_info='cord');
\* lines 152-157: npoints, data_size, inputs, labels
LoadCord ==
    /\ pc = "load_cord"
    /\ \E oc \in DownloadOutcomes :
        /\ GetRealPhyInfo_call(start_time, "cord", oc)
        /\ IF GetRealPhyInfo_ok(fs, archive, oc, start_time)
           THEN /\ inputs' = create_inputs(npoints, geo_disc_user)
                /\ pc' = "partition_inputs"
                /\ UNCHANGED abort_reason
           ELSE /\ Abort("DataUnavailable")
                /\ UNCHANGED inputs
    /\ UNCHANGED <<i, k, nranks, rank, npoints, num_time_step, train_epoch,
                   weights, feeds, current_interior, current_user, out,
                   out_step, next_uvwp, build_flag, log, archive>>

\* lines 190-198: inputs = data_parallel_partition(inputs); feeds = ...
PartitionInputs ==
    /\ pc = "partition_inputs"
    /\ inputs' = data_parallel_partition(inputs, 0, nranks, rank)
    /\ feeds' = [feeds EXCEPT !.input = inputs']
    /\ pc' = "init_carry"
    /\ UNCHANGED <<i, k, nranks, rank, npoints, num_time_step, train_epoch,
                   weights, current_interior, current_user, out, out_step,
                   next_uvwp, build_flag, log, fs, archive, downloads,
                   lastCall, abort_reason>>

\* lines 223-227
InitCarry ==
    /\ pc = "init_carry"
    /\ \E oc \in DownloadOutcomes :
        /\ GetRealPhyInfo_call(start_time, "physic", oc)
        /\ IF GetRealPhyInfo_ok(fs, archive, oc, start_time)
           THEN /\ current_interior' = Zeros(npoints, 3)
                /\ current_user' = initial_current_user
                /\ pc' = "loop"
                /\ UNCHANGED abort_reason
           ELSE /\ Abort("DataUnavailable")
                /\ UNCHANGED <<current_interior, current_user>>
    /\ UNCHANGED <<i, k, nranks, rank, npoints, num_time_step, train_epoch,
                   weights, inputs, feeds, out, out_step, next_uvwp,
                   build_flag, log, archive>>

\* lines 228-246: the head of one timestep: build, partition and feed labels
BuildLabels ==
    /\ pc = "loop"
    /\ TimeLoopContinues(i, num_time_step)
    /\ \E oc \in DownloadOutcomes :
        /\ GetRealPhyInfo_call(next_time_of(i), "physic", oc)
        /\ IF GetRealPhyInfo_ok(fs, archive, oc, next_time_of(i))
           THEN /\ LET l0 == create_labels(npoints, NumUser)
                       l1 == feed_data_interior_cur(l0, current_interior)
                       l2 == feed_data_user_cur(l1, current_user)
                       l3 == feed_data_user_next(l2,
                                 GetRealPhyInfo_value(RealFile(next_time_of(i)),
                                                      "physic"))
                       self_lables == data_parallel_partition(l3, i, nranks, rank)
                   IN  feeds' = [feeds EXCEPT !.label = self_lables]
                /\ k' = 0
                /\ pc' = "epoch"
                /\ UNCHANGED abort_reason
           ELSE /\ Abort("DataUnavailable")
                /\ UNCHANGED <<feeds, k>>
    /\ UNCHANGED <<i, nranks, rank, npoints, num_time_step, train_epoch,
                   weights, inputs, current_interior, current_user, out,
                   out_step, next_uvwp, build_flag, log, archive>>

\* the for statement of line 228 is exhausted: the script ends
Finish ==
    /\ pc = "loop"
    /\ ~TimeLoopContinues(i, num_time_step)
    /\ pc' = "done"
    /\ UNCHANGED <<i, k, nranks, rank, npoints, num_time_step, train_epoch,
                   weights, inputs, feeds, current_interior, current_user,
                   out, out_step, next_uvwp, build_flag, log, fs, archive,
                   downloads, lastCall, abort_reason>>

\* lines 247-253: one optimizer step
TrainStep ==
    /\ pc = "epoch"
    /\ EpochLoopContinues(k, train_epoch)
    /\ out' = exe_run(weights, feeds)
    /\ weights' = adam_step(weights)
    /\ out_step' = <<i, k>>
    /\ log' = Append(log, [op |-> "run", ts |-> i, k |-> k, file |-> <<>>,
                           src |-> <<>>])
    /\ build_flag' = FALSE
    /\ k' = k + 1
    /\ UNCHANGED <<pc, i, nranks, rank, npoints, num_time_step, train_epoch,
                   inputs, feeds, current_interior, current_user, next_uvwp,
                   fs, archive, downloads, lastCall, abort_reason>>

\* lines 254-255: the epoch loop is exhausted; next_uvwp = out[1:]
TakeOut ==
    /\ pc = "epoch"
    /\ ~EpochLoopContinues(k, train_epoch)
    /\ IF out = <<>>
       THEN /\ Abort("NameError")
            /\ UNCHANGED next_uvwp
       ELSE /\ next_uvwp' = take_next_uvwp(out)
            /\ pc' = "save_vtk"
            /\ UNCHANGED abort_reason
    /\ UNCHANGED <<i, k, nranks, rank, npoints, num_time_step, train_epoch,
                   weights, inputs, feeds, current_interior, current_user,
                   out, out_step, build_flag, log, fs, archive, downloads,
                   lastCall>>

\* lines 257-260
SaveVtk ==
    /\ pc = "save_vtk"
    /\ log' = Append(log, [op |-> "save_vtk", ts |-> i, k |-> k,
                           file |-> vtk_filename \o str(next_time_of(i)),
                           src |-> out_step])
    /\ pc' = "save_npy"
    /\ UNCHANGED <<i, k, nranks, rank, npoints, num_time_step, train_epoch,
                   weights, inputs, feeds, current_interior, current_user,
                   out, out_step, next_uvwp, build_flag, fs, archive,
                   downloads, lastCall, abort_reason>>

\* lines 261-264
SaveNpy ==
    /\ pc = "save_npy"
    /\ log' = Append(log, [op |-> "save_npy", ts |-> i, k |-> k,
                           file |-> solution_filename \o str(next_time_of(i)),
                           src |-> out_step])
    /\ pc' = "carry"
    /\ UNCHANGED <<i, k, nranks, rank, npoints, num_time_step, train_epoch,
                   weights, inputs, feeds, current_interior, current_user,
                   out, out_step, next_uvwp, build_flag, fs, archive,
                   downloads, lastCall, abort_reason>>

\* lines 266-270: next_info -> current_info, and the next value of i
Carry ==
    /\ pc = "carry"
    /\ current_interior' = carry_interior(next_uvwp)
    /\ current_user' = carry_user(next_uvwp)
    /\ i' = i + 1
    /\ pc' = "loop"
    /\ UNCHANGED <<k, nranks, rank, npoints, num_time_step, train_epoch,
                   weights, inputs, feeds, out, out_step, next_uvwp,
                   build_flag, log, fs, archive, downloads, lastCall,
                   abort_reason>>

DriverNext ==
    \/ LoadCord
    \/ PartitionInputs
    \/ InitCarry
    \/ BuildLabels
    \/ Finish
    \/ TrainStep
    \/ TakeOut
    \/ SaveVtk
    \/ SaveNpy
    \/ Carry

DriverIdle ==
    /\ pc = "idle" /\ i = 0 /\ k = 0 /\ nranks = 1 /\ rank = 0 /\ npoints = 0
    /\ num_time_step = 0 /\ train_epoch = 0 /\ weights = 0 /\ inputs = <<>>
    /\ feeds = [input |-> <<>>, label |-> <<>>]
    /\ current_interior = Zeros(0, 0) /\ current_user = Zeros(0, 0)
    /\ out = <<>> /\ out_step = <<>> /\ next_uvwp = <<>> /\ build_flag = TRUE
    /\ log = <<>> /\ fs = [dir |-> TRUE, files |-> {}] /\ archive = {}
    /\ downloads = 0 /\ lastCall = NoCall /\ abort_reason = "none"

PartitionIdle == p_data = <<>> /\ p_nranks = 1 /\ p_shards = <<>>

DataIdle == r_time = 0 /\ r_file = Zeros(0, 0) /\ r_result = <<>>

VisuIdle ==
    /\ v_cls = "none" /\ v_output_keys = <<>> /\ v_num_timestamps = 1
    /\ v_stride = 1 /\ v_filename = <<>> /\ v_data_dict = <<>>
    /\ v_plots = <<>> /\ v_result = "none"

Init == DriverInit /\ PartitionIdle /\ DataIdle /\ VisuIdle

Next == DriverNext /\ UNCHANGED <<pvars, rvars, vvars>>

Spec == Init /\ [][Next]_vars

(***************************************************************************)
(* data_parallel_partition as every rank of a world applies it             *)
(***************************************************************************)
\* an array of n rows that are all different
PartitionInput(j, n) == [ncol |-> 1, rows |-> [r \in 1..n |-> <<10 * j + r>>]]

PartitionInit ==
    /\ p_nranks \in 1..(MaxRanks + 1)
    /\ \E len \in 1..MaxArrays : \E size \in [1..len -> 0..MaxRows] :
          p_data = [j \in 1..len |-> PartitionInput(j, size[j])]
    /\ p_shards = [r \in 1..p_nranks |-> <<>>]

\* line 241 on the worker of rank r at timestep ts:
\* self_lables = data_parallel_partition(self_lables, time_step=ts)
PartitionOnRank ==
    \E r \in 0..(p_nranks - 1) : \E ts \in 0..MaxTimeSteps :
        /\ p_shards' = [p_shards EXCEPT
                          ![r + 1] = data_parallel_partition(p_data, ts, p_nranks, r)]
        /\ UNCHANGED <<p_data, p_nranks>>

PartitionNext == PartitionOnRank /\ UNCHANGED <<dvars, rvars, vvars>>

InitPartition == PartitionInit /\ DriverIdle /\ DataIdle /\ VisuIdle

SpecPartition == InitPartition /\ [][PartitionNext]_vars

(***************************************************************************)
(* GetRealPhyInfo applied to one stored file                               *)
(***************************************************************************)
NeedInfos == {"cord", "physic", "None"}

DataInit ==
    /\ r_time \in Times
    /\ \E seed \in 0..MaxSeed : \E n \in 0..NumUser :
          r_file = FileData(r_time, seed, n)
    /\ r_result = [ni \in NeedInfos |-> [set |-> FALSE, value |-> Zeros(0, 0)]]

\* lines 80-88 of a call GetRealPhyInfo(r_time, need_info) whose file exists
GetRealPhyInfo ==
    \E need_info \in NeedInfos :
        /\ ~r_result[need_info].set
        /\ r_result' = [r_result EXCEPT
              ![need_info] = [set |-> TRUE,
                              value |-> GetRealPhyInfo_value(r_file, need_info)]]
        /\ UNCHANGED <<r_time, r_file>>

DataNext == GetRealPhyInfo /\ UNCHANGED <<dvars, pvars, vvars>>

InitData == DataInit /\ DriverIdle /\ PartitionIdle /\ VisuIdle

SpecData == InitData /\ [][DataNext]_vars

(***************************************************************************)
(* Visualizers (ppsci/visualize/visualizer.py)                             *)
(*                                                                         *)
(* An n-d array is a view [name, shape, index]: the array passed under key *)
(* name, its shape, and the leading indices already applied to it.         *)
(***************************************************************************)
Keys == {"a", "b"}
Filenames == {<<"plot">>}

ShapeOf(rk, b, t) == [j \in 1..rk |-> IF j = 1 THEN b ELSE IF j = 2 THEN t ELSE 3]

Shapes == {ShapeOf(rk, b, t) : rk \in 0..MaxRank, b \in 0..MaxBatch, t \in 1..MaxFrames}

DataDicts ==
    UNION {{[key \in S |-> [name |-> key, shape |-> sh[key], index |-> <<>>]] :
               sh \in [S -> Shapes]} : S \in SUBSET Keys}

SeqRange(q) == {q[j] : j \in 1..Len(q)}

\* value[i]: raises IndexError unless the array has a first axis longer than i
Indexable(a, idx) == Len(a.shape) >= 1 /\ idx < a.shape[1]

Index(a, idx) ==
    [name |-> a.name, shape |-> Tail(a.shape), index |-> Append(a.index, idx)]

\* {key: value for key, value in data_dict.items() if key in self.output_keys}
filter_output_keys(data_dict, output_keys) ==
    [key \in (DOMAIN data_dict) \cap SeqRange(output_keys) |-> data_dict[key]]

\* filename + str(i)
batch_filename(filename, idx) == filename \o str(idx)

\* the number of frames the 2-D plot writer renders of an array whose first
\* axis is time: every stride-th frame
save_plot_from_2d_dict_frames(value, stride) ==
    IF Len(value.shape) = 0 THEN 0 ELSE value.shape[1] \div stride

\* one plot-writer call; each call writes one file
PlotCall(writer, filename, data_dict, output_keys, nts, stride) ==
    [writer |-> writer, filename |-> filename, data_dict |-> data_dict,
     output_keys |-> output_keys, num_timestamps |-> nts, stride |-> stride,
     frames |-> IF writer = "save_plot_from_2d_dict"
                THEN save_plot_from_2d_dict_frames(data_dict[output_keys[1]], stride)
                ELSE 0]

\* the number of iterations of "for i in range(value.shape[0])" that build
\* cur_data_dict without an IndexError
CompletedBatches(dd, B) ==
    LET bad == {idx \in 0..(B - 1) : \E key \in DOMAIN dd : ~Indexable(dd[key], idx)}
    IN  IF bad = {} THEN B ELSE CHOOSE idx \in bad : \A o \in bad : idx <= o

\* the calls of the batched branch and how it ends
BatchedSave(writer, filename, dd, output_keys, nts, stride) ==
    LET B == dd[output_keys[1]].shape[1]
        m == CompletedBatches(dd, B)
    IN  [plots |-> [n \in 1..m |->
                      PlotCall(writer, batch_filename(filename, n - 1),
                               [key \in DOMAIN dd |-> Index(dd[key], n - 1)],
                               output_keys, nts, stride)],
         result |-> IF m < B THEN "IndexError" ELSE "returned"]

\* the single call of the else branch
SingleSave(writer, filename, dd, output_keys, nts, stride) ==
    [plots |-> <<PlotCall(writer, filename, dd, output_keys, nts, stride)>>,
     result |-> "returned"]

\* faulty variant: the batched branch is taken for 2 axes
Scatter3D_batched_2(dim) == dim = 2

\* line 105: if dim == 3
Scatter3D_batched(dim) == dim = 3

\* faulty variant: the batched branch is taken for 3 axes, as in VisualizerScatter3D
Plot2D_batched_3(dim) == dim = 3

\* line 257: if dim == 4
Plot2D_batched(dim) == dim = 4

\* VisualizerScatter3D.save
Scatter3D_save(filename, data_dict, output_keys, nts) ==
    LET dd == filter_output_keys(data_dict, output_keys)
    IN  IF output_keys[1] \notin DOMAIN dd
        THEN [plots |-> <<>>, result |-> "KeyError"]
        ELSE IF Scatter3D_batched(Len(dd[output_keys[1]].shape))
        THEN BatchedSave("save_plot_from_3d_dict", filename, dd, output_keys, nts, 0)
        ELSE SingleSave("save_plot_from_3d_dict", filename, dd, output_keys, nts, 0)

\* Visualizer2DPlot.save
Plot2D_save(filename, data_dict, output_keys, nts, stride) ==
    LET dd == filter_output_keys(data_dict, output_keys)
    IN  IF output_keys[1] \notin DOMAIN dd
        THEN [plots |-> <<>>, result |-> "KeyError"]
        ELSE IF Plot2D_batched(Len(dd[output_keys[1]].shape))
        THEN BatchedSave("save_plot_from_2d_dict", filename, dd, output_keys, nts, stride)
        ELSE SingleSave("save_plot_from_2d_dict", filename, dd, output_keys, nts, stride)

\* __init__: output_keys, num_timestamps and stride are fixed at construction
VisuInit ==
    /\ v_cls = "none"
    /\ v_output_keys \in {<<"a">>, <<"a", "b">>, <<"b", "a">>}
    /\ v_num_timestamps \in 1..2
    /\ v_stride \in 1..MaxStride
    /\ v_filename = <<>>
    /\ v_data_dict = <<>>
    /\ v_plots = <<>>
    /\ v_result = "none"

VisualizerScatter3D_save ==
    /\ v_cls = "none"
    /\ \E filename \in Filenames : \E data_dict \in DataDicts :
        LET r == Scatter3D_save(filename, data_dict, v_output_keys, v_num_timestamps)
        IN  /\ v_cls' = "VisualizerScatter3D"
            /\ v_filename' = filename
            /\ v_data_dict' = data_dict
            /\ v_plots' = r.plots
            /\ v_result' = r.result
    /\ UNCHANGED <<v_output_keys, v_num_timestamps, v_stride>>

Visualizer2DPlot_save ==
    /\ v_cls = "none"
    /\ \E filename \in Filenames : \E data_dict \in DataDicts :
        LET r == Plot2D_save(filename, data_dict, v_output_keys, v_num_timestamps,
                             v_stride)
        IN  /\ v_cls' = "Visualizer2DPlot"
            /\ v_filename' = filename
            /\ v_data_dict' = data_dict
            /\ v_plots' = r.plots
            /\ v_result' = r.result
    /\ UNCHANGED <<v_output_keys, v_num_timestamps, v_stride>>

VisuNext ==
    /\ \/ VisualizerScatter3D_save
       \/ Visualizer2DPlot_save
    /\ UNCHANGED <<dvars, pvars, rvars>>

InitVisu == VisuInit /\ DriverIdle /\ PartitionIdle /\ DataIdle

SpecVisu == InitVisu /\ [][VisuNext]_vars

(***************************************************************************)
(* Properties of the driver                                                *)
(***************************************************************************)
Terminated == pc \in {"done", "aborted"}

RunEvents == {j \in 1..Len(log) : log[j].op = "run"}
SaveEvents(op) == {j \in 1..Len(log) : log[j].op = op}
WriterEvents == SaveEvents("save_vtk") \cup SaveEvents("save_npy")

\* C1: at every timestep, on every worker rank, the array fed into the
\* interior label subset (current_interior) has as many rows as the geometry
\* has interior points, and exactly 3 columns.
C1_InteriorLabelShape ==
    pc = "epoch" =>
        /\ NRows(current_interior) = npoints
        /\ NCols(current_interior) = 3

\* the number of statements the script has left to run when no call fails:
\* each timestep takes train_epoch optimizer steps and five more statements
StepsLeft ==
    LET per == train_epoch + 5
        rest == (num_time_step - i) * per + 1
    IN  CASE pc = "load_cord" -> rest + 3
          [] pc = "partition_inputs" -> rest + 2
          [] pc = "init_carry" -> rest + 1
          [] pc = "loop" -> rest
          [] pc = "epoch" -> rest - per + 4 + (train_epoch - k)
          [] pc = "save_vtk" -> rest - per + 3
          [] pc = "save_npy" -> rest - per + 2
          [] pc = "carry" -> rest - per + 1
          [] OTHER -> 0

\* C2: a run that completes has made exactly num_time_step outer iterations
\* and exactly train_epoch optimizer steps in each of them (one step for
\* every pair (timestep, epoch), none skipped or repeated); and the loop
\* always terminates: the script never hangs before it is done or aborted,
\* and every statement it runs lowers a bounded count of statements left.
C2_ExactStepCount ==
    /\ [](pc = "done" =>
            /\ i = num_time_step
            /\ Cardinality(RunEvents) = num_time_step * train_epoch
            /\ \A ts \in 0..(num_time_step - 1) : \A kk \in 0..(train_epoch - 1) :
                  Cardinality({j \in RunEvents :
                                  log[j].ts = ts /\ log[j].k = kk}) = 1)
    /\ [](Terminated \/ ENABLED Next)
    /\ [](StepsLeft >= 0 /\ (StepsLeft = 0 => Terminated))
    /\ [][StepsLeft' < StepsLeft]_vars

C2_Witness ==
    pc = "done" /\ num_time_step = 2 /\ train_epoch = 2 /\ Cardinality(RunEvents) = 4

\* C3: with num_time_step = 0 the driver makes no optimizer step and no
\* call to either artifact writer.
C3_ZeroTimeSteps ==
    num_time_step = 0 => /\ RunEvents = {}
                         /\ WriterEvents = {}
                         /\ out = <<>>

C3_Witness == pc = "done" /\ num_time_step = 0 /\ train_epoch > 0

\* C6: a GetRealPhyInfo call for a time whose file is absent triggers the
\* download-and-extract fallback, at most once in a run; a call that cannot
\* load its file fails and aborts the run.
C6_DownloadOnMissingFile ==
    /\ lastCall.file_absent => lastCall.downloaded
    /\ downloads <= 1
    /\ (~lastCall.file_after \/ ~lastCall.fallback_ok) => pc = "aborted"

\* C10 (as stated): when the epoch loop of timestep i is exhausted, out holds
\* the outputs of the final optimizer step of that same timestep, for any
\* configured train_epoch.
C10_FinalStepOutputs ==
    (pc = "epoch" /\ ~(k < train_epoch)) => out_step = <<i, train_epoch - 1>>

\* C10 (amended): for train_epoch >= 1, every writer call of timestep ts
\* persists the outputs of the final optimizer step (ts, train_epoch - 1),
\* under the key start_time + (ts + 1) * time_step; each timestep calls each
\* writer at most once, and exactly once when it has completed; the writes of
\* a timestep follow all of its optimizer steps and precede every optimizer
\* step of a later timestep; no two timesteps share a key.  With
\* train_epoch = 0 the first timestep aborts (out is unbound) and nothing is
\* ever persisted.
C10_PersistFinalStep ==
    /\ \A j \in WriterEvents :
          /\ train_epoch >= 1
          /\ log[j].src = <<log[j].ts, train_epoch - 1>>
          /\ log[j].file =
                (IF log[j].op = "save_vtk" THEN vtk_filename ELSE solution_filename)
                  \o str(start_time + (log[j].ts + 1) * time_step)
          /\ Cardinality({r \in RunEvents : r < j /\ log[r].ts = log[j].ts})
                = train_epoch
          /\ \A r \in RunEvents : r > j => log[r].ts > log[j].ts
    /\ \A op \in {"save_vtk", "save_npy"} : \A a, b \in SaveEvents(op) :
          (log[a].ts = log[b].ts \/ log[a].file = log[b].file) => a = b
    /\ \A ts \in 0..(i - 1) : \A op \in {"save_vtk", "save_npy"} :
          \E j \in SaveEvents(op) : log[j].ts = ts
    /\ pc \in {"save_vtk", "save_npy", "carry"} =>
          /\ next_uvwp = SubSeq(out, 2, Len(out))
          /\ out_step = <<i, train_epoch - 1>>
    /\ (train_epoch = 0 /\ num_time_step > 0) => pc # "done"

C10_Witness ==
    /\ pc = "carry" /\ i = 1 /\ train_epoch = 2
    /\ Cardinality(WriterEvents) = 4

\* the script is inside the time-marching loop (lines 228-270)
InTimeLoop == pc \in {"loop", "epoch", "save_vtk", "save_npy", "carry"}

\* the shard of array a that the label list of this rank holds
LabelShard(a) == IF nranks <= 1 THEN a ELSE partition_array(a, nranks, rank)

\* C11: the timestep carry makes exactly one transition per timestep.
\* Throughout iteration 0 current_interior is the zero array of
\* (interior points, 3) and current_user is the first three physical columns
\* (columns 3:6 of the loaded record) of the real data at start_time.  The
\* labels of every iteration are built from the carry as it stands at the
\* head of that iteration, and at the head of iteration i >= 1 the carry is
\* columns 0:3 of next_uvwp[0] and of next_uvwp[-1], next_uvwp being the
\* outputs (out[1:], one per input subset, the last the reference points) of
\* an optimizer step of iteration i - 1.  The carry and the timestep index
\* change only in the carry statement that ends a timestep, which advances
\* the index by one: not in the epoch loop, not in the writers.
C11_CarryOncePerTimestep ==
    /\ []((InTimeLoop /\ i = 0) =>
            /\ current_interior = Zeros(npoints, 3)
            /\ current_user =
                  SliceCols(astype_float32(RealFile(start_time)), 3, 6))
    /\ []((pc = "loop" /\ i >= 1) =>
            /\ current_interior = SliceCols(next_uvwp[1], 0, 3)
            /\ current_user = SliceCols(next_uvwp[Len(next_uvwp)], 0, 3)
            /\ Len(next_uvwp) = Len(inputs)
            /\ next_uvwp = SubSeq(out, 2, Len(out))
            /\ out_step[1] = i - 1)
    /\ [][(pc = "loop" /\ pc' = "epoch") =>
            /\ feeds'.label[1] = LabelShard(current_interior)
            /\ feeds'.label[3] = LabelShard(current_user)]_vars
    /\ [][pc = "carry" =>
            /\ i' = i + 1
            /\ out_step[1] = i
            /\ current_interior' = SliceCols(next_uvwp[1], 0, 3)
            /\ current_user' = SliceCols(next_uvwp[Len(next_uvwp)], 0, 3)]_vars
    /\ [][pc \notin {"init_carry", "carry"} =>
            UNCHANGED <<current_interior, current_user, i>>]_vars
    /\ [](InTimeLoop =>
            Cardinality({j \in SaveEvents("save_npy") : log[j].ts < i}) = i)

C11_Witness ==
    /\ pc = "epoch" /\ i = 1 /\ k = 1 /\ npoints = 2
    /\ current_interior # Zeros(npoints, 3)
    /\ current_user # SliceCols(astype_float32(RealFile(start_time)), 3, 6)
    /\ current_interior # current_user
    /\ feeds.label[1] = current_interior
    /\ feeds.label[3] = current_user

(***************************************************************************)
(* Properties of data_parallel_partition                                   *)
(***************************************************************************)
RowSet(a) == {a.rows[r] : r \in 1..Len(a.rows)}

RECURSIVE ShardRowsUpTo(_, _)
\* the rows of array j in the shards of ranks 0..r-1, in rank order
ShardRowsUpTo(j, r) ==
    IF r = 0 THEN <<>> ELSE ShardRowsUpTo(j, r - 1) \o p_shards[r][j].rows

Received(r) == p_shards[r] # <<>>

\* C4: the shards the ranks receive are contiguous, order-preserving slices
\* of the input arrays, pairwise disjoint, and the shards of all ranks
\* concatenated in rank order are the input arrays, row for row, whatever
\* the timestep of the call.
C4_PartitionCover ==
    /\ \A r \in 1..p_nranks : Received(r) =>
          /\ Len(p_shards[r]) = Len(p_data)
          /\ \A j \in 1..Len(p_data) :
                /\ p_shards[r][j].ncol = p_data[j].ncol
                /\ \E lo \in 0..Len(p_data[j].rows) : \E hi \in lo..Len(p_data[j].rows) :
                      p_shards[r][j].rows = SubSeq(p_data[j].rows, lo + 1, hi)
    /\ \A r1, r2 \in 1..p_nranks : (Received(r1) /\ Received(r2) /\ r1 # r2) =>
          \A j \in 1..Len(p_data) :
              RowSet(p_shards[r1][j]) \cap RowSet(p_shards[r2][j]) = {}
    /\ (\A r \in 1..p_nranks : Received(r)) =>
          \A j \in 1..Len(p_data) : ShardRowsUpTo(j, p_nranks) = p_data[j].rows

C4_Witness ==
    /\ p_nranks = 2
    /\ \A r \in 1..p_nranks : Received(r)
    /\ \E j \in 1..Len(p_data) : Len(p_data[j].rows) = 3

(***************************************************************************)
(* Properties of GetRealPhyInfo                                            *)
(***************************************************************************)
\* C9: the "cord" result (columns 0:3) joined column-wise with the "physic"
\* result (columns 3:7) is the full 7-column result, row for row.
C9_CordPhysicIsFull ==
    (\A ni \in NeedInfos : r_result[ni].set) =>
        LET cord == r_result["cord"].value
            physic == r_result["physic"].value
            full == r_result["None"].value
        IN  /\ cord.ncol = 3 /\ physic.ncol = 4 /\ full.ncol = 7
            /\ Len(cord.rows) = Len(full.rows)
            /\ Len(physic.rows) = Len(full.rows)
            /\ \A r \in 1..Len(full.rows) :
                  cord.rows[r] \o physic.rows[r] = full.rows[r]

C9_Witness ==
    /\ \A ni \in NeedInfos : r_result[ni].set
    /\ Len(r_result["None"].value.rows) = 2
    /\ r_file # r_result["None"].value

(***************************************************************************)
(* Properties of the visualizers                                           *)
(***************************************************************************)
Saved(cls) == v_cls = cls /\ v_output_keys[1] \in DOMAIN v_data_dict

FirstShape == v_data_dict[v_output_keys[1]].shape

SelectedKeys == (DOMAIN v_data_dict) \cap SeqRange(v_output_keys)

\* every selected output has the batch elements 0..B-1
AllHaveBatch(B) ==
    \A n \in 0..(B - 1) : \A key \in SelectedKeys :
        Len(v_data_dict[key].shape) >= 1 /\ v_data_dict[key].shape[1] > n

\* the first batch element some selected output lacks
FirstMissing(B) ==
    CHOOSE n \in 0..(B - 1) :
        /\ \E key \in SelectedKeys :
              Len(v_data_dict[key].shape) = 0 \/ v_data_dict[key].shape[1] <= n
        /\ \A o \in 0..(n - 1) : \A key \in SelectedKeys :
              Len(v_data_dict[key].shape) >= 1 /\ v_data_dict[key].shape[1] > o

\* the n-th plot-writer call (n = 0, 1, ...) got filename + str(n) and every
\* selected output sliced to batch element n, and nothing else
BatchCallIs(n) ==
    /\ v_plots[n + 1].filename = v_filename \o str(n)
    /\ DOMAIN v_plots[n + 1].data_dict = SelectedKeys
    /\ \A key \in SelectedKeys :
          v_plots[n + 1].data_dict[key] =
              [name |-> key, shape |-> Tail(v_data_dict[key].shape), index |-> <<n>>]

\* exactly one plot-writer call, with the filename unmodified and the
\* selected outputs whole
SingleCallIs ==
    /\ Len(v_plots) = 1
    /\ v_plots[1].filename = v_filename
    /\ DOMAIN v_plots[1].data_dict = SelectedKeys
    /\ \A key \in SelectedKeys : v_plots[1].data_dict[key] = v_data_dict[key]
    /\ v_result = "returned"

\* C5: save raises and writes nothing when the rank of the first output's
\* array is neither the single nor the batched case (VisualizerScatter3D:
\* not 2 or 3; Visualizer2DPlot: not 3 or 4).
C5_UnsupportedRankRaises ==
    /\ (Saved("VisualizerScatter3D") /\ Len(FirstShape) \notin {2, 3}) =>
          (v_result # "returned" /\ v_plots = <<>>)
    /\ (Saved("Visualizer2DPlot") /\ Len(FirstShape) \notin {3, 4}) =>
          (v_result # "returned" /\ v_plots = <<>>)

\* C7 (as stated): VisualizerScatter3D.save makes exactly B plot-writer calls
\* when the first output has 3 axes (B x T x 3), the i-th with filename +
\* str(i) and every selected output sliced to batch element i, and exactly
\* one call with the unmodified filename when it has 2 axes.
C7_Scatter3DFiles ==
    Saved("VisualizerScatter3D") =>
        /\ Len(FirstShape) = 3 =>
              /\ Len(v_plots) = FirstShape[1]
              /\ \A n \in 0..(Len(v_plots) - 1) : BatchCallIs(n)
        /\ Len(FirstShape) = 2 => SingleCallIs

\* C7 (amended): as C7, provided every selected output has at least B
\* elements on its first axis; otherwise save raises IndexError at the first
\* batch element i that some selected output lacks, after exactly i calls.
C7_Scatter3DFilesWhenBatched ==
    Saved("VisualizerScatter3D") =>
        /\ (Len(FirstShape) = 3 /\ AllHaveBatch(FirstShape[1])) =>
              /\ Len(v_plots) = FirstShape[1]
              /\ v_result = "returned"
        /\ (Len(FirstShape) = 3 /\ ~AllHaveBatch(FirstShape[1])) =>
              /\ Len(v_plots) = FirstMissing(FirstShape[1])
              /\ v_result = "IndexError"
        /\ Len(FirstShape) = 3 =>
              \A n \in 0..(Len(v_plots) - 1) :
                  /\ BatchCallIs(n)
                  /\ v_plots[n + 1].writer = "save_plot_from_3d_dict"
        /\ Len(FirstShape) = 2 => SingleCallIs

C7_Witness ==
    /\ Saved("VisualizerScatter3D")
    /\ v_output_keys = <<"a", "b">>
    /\ DOMAIN v_data_dict = {"a", "b"}
    /\ FirstShape = <<2, 3, 3>>
    /\ Len(v_plots) = 2

\* C8 (as stated): Visualizer2DPlot.save makes exactly B plot-writer calls
\* when the first output has 4 axes (B x T x H x W), the i-th named
\* filename + str(i) and rendering the T // stride stride-sampled frames of
\* batch element i, and exactly one call when it has no batch axis.
C8_Plot2DFiles ==
    Saved("Visualizer2DPlot") =>
        /\ Len(FirstShape) = 4 =>
              /\ Len(v_plots) = FirstShape[1]
              /\ \A n \in 0..(Len(v_plots) - 1) :
                    /\ BatchCallIs(n)
                    /\ v_plots[n + 1].frames = FirstShape[2] \div v_stride
        /\ Len(FirstShape) = 3 => SingleCallIs

\* C8 (amended): as C8, provided every selected output has at least B
\* elements on its first axis; otherwise save raises IndexError at the first
\* batch element i that some selected output lacks, after exactly i calls.
C8_Plot2DFilesWhenBatched ==
    Saved("Visualizer2DPlot") =>
        /\ (Len(FirstShape) = 4 /\ AllHaveBatch(FirstShape[1])) =>
              /\ Len(v_plots) = FirstShape[1]
              /\ v_result = "returned"
        /\ (Len(FirstShape) = 4 /\ ~AllHaveBatch(FirstShape[1])) =>
              /\ Len(v_plots) = FirstMissing(FirstShape[1])
              /\ v_result = "IndexError"
        /\ Len(FirstShape) = 4 =>
              \A n \in 0..(Len(v_plots) - 1) :
                  /\ BatchCallIs(n)
                  /\ v_plots[n + 1].writer = "save_plot_from_2d_dict"
                  /\ v_plots[n + 1].stride = v_stride
                  /\ v_plots[n + 1].num_timestamps = v_num_timestamps
                  /\ v_plots[n + 1].frames = FirstShape[2] \div v_stride
        /\ Len(FirstShape) = 3 =>
              /\ SingleCallIs
              /\ v_plots[1].stride = v_stride
              /\ v_plots[1].frames = FirstShape[1] \div v_stride

C8_Witness ==
    /\ Saved("Visualizer2DPlot")
    /\ FirstShape = <<2, 3, 3, 3>>
    /\ v_stride = 2
    /\ Len(v_plots) = 2
    /\ v_plots[2].frames = 1

====
